---- MODULE Spec2Model ----
(***************************************************************************)
(* Model of cedarling_pg (jans-cedarling/cedarling_pg): the authorization  *)
(* path (lib.rs, authorization.rs), the per-call configuration reads       *)
(* (config.rs) and the token bundle validation (token.rs).                 *)
(*                                                                         *)
(* Strings whose characters the code inspects (the configuration values,   *)
(* lower-cased before matching) are sequences of one-character strings.    *)
(* A JWT is modelled by what the decoders of token.rs make of it: the      *)
(* number of '.'-separated segments, whether the header decodes, the       *)
(* header's algorithm, whether the payload decodes, and the claim map.     *)
(***************************************************************************)
EXTENDS Integers, Sequences, FiniteSets, TLC

VARIABLES
    instance,   \* CEDARLING_INSTANCE (OnceLock<Cedarling>): 0 = empty, h > 0 = handle h
    nextHandle, \* number of Cedarling objects built so far by Cedarling::new
    initPc,     \* per caller of initialize_cedarling: its position in the function
    settings,   \* the session's settings store: cedarling.mode, cedarling.fail_mode
    clock,      \* chrono::Utc::now().timestamp()
    token,      \* the argument of a validate_standard_claims call: [kind, claims]
    bundle,     \* the TokenBundle a TokenBundle::validate call is made on
    guc,        \* the session's configuration parameter cedarling.tokens
    lastMutation, \* history: the last set_tokens or clear_tokens that returned Ok
    call        \* the record of the last completed operation

vars == <<instance, nextHandle, initPc, settings, clock, token, bundle, guc,
          lastMutation, call>>

(***************************************************************************)
(* Bounds of the model.                                                    *)
(***************************************************************************)
\* number of concurrent callers of initialize_cedarling
NumProcs == 2
\* number of Cedarling::new calls that succeed in a run
MaxInits == 3
\* number of seconds the clock advances in a run
MaxTick == 1
\* number of leading characters of a setting value that vary in case
CasePrefix == 3

\* the longest generated table name
MaxNameLen == 4

Procs == 1..NumProcs

(***************************************************************************)
(* Strings as character sequences; str::to_lowercase on ASCII letters.     *)
(***************************************************************************)
UpperChars == <<"A","B","C","D","E","F","G","H","I","J","K","L","M",
                "N","O","P","Q","R","S","T","U","V","W","X","Y","Z">>
LowerChars == <<"a","b","c","d","e","f","g","h","i","j","k","l","m",
                "n","o","p","q","r","s","t","u","v","w","x","y","z">>

CharToLower(c) ==
    IF \E i \in 1..Len(UpperChars) : UpperChars[i] = c
    THEN LowerChars[CHOOSE i \in 1..Len(UpperChars) : UpperChars[i] = c]
    ELSE c

CharToUpper(c) ==
    IF \E i \in 1..Len(LowerChars) : LowerChars[i] = c
    THEN UpperChars[CHOOSE i \in 1..Len(LowerChars) : LowerChars[i] = c]
    ELSE c

\* a faulty variant of to_lowercase: the string is matched as written
to_lowercase_identity(s) == s

to_lowercase(s) == [i \in 1..Len(s) |-> CharToLower(s[i])]

to_uppercase(s) == [i \in 1..Len(s) |-> CharToUpper(s[i])]

S_enforcement     == <<"e","n","f","o","r","c","e","m","e","n","t">>
S_instrumentation == <<"i","n","s","t","r","u","m","e","n","t","a","t","i","o","n">>
S_shadow          == <<"s","h","a","d","o","w">>
S_closed          == <<"c","l","o","s","e","d">>
S_open            == <<"o","p","e","n">>
S_empty           == <<>>
S_bogus           == <<"b","o","g","u","s">>
S_shadow_sp       == <<"s","h","a","d","o","w"," ">>
S_opened          == <<"o","p","e","n","e","d">>
S_on              == <<"o","n">>

(***************************************************************************)
(* config.rs                                                               *)
(***************************************************************************)
\* OperationMode::from_str: Ok(mode) or Err(Configuration)
OperationMode_from_str(s) ==
    LET l == to_lowercase(s) IN
    IF l = S_enforcement THEN [ok |-> TRUE, v |-> "Enforcement"]
    ELSE IF l = S_instrumentation THEN [ok |-> TRUE, v |-> "Instrumentation"]
    ELSE IF l = S_shadow THEN [ok |-> TRUE, v |-> "Shadow"]
    ELSE [ok |-> FALSE, v |-> "Configuration"]

\* FailMode::from_str: Ok(mode) or Err(Configuration)
FailMode_from_str(s) ==
    LET l == to_lowercase(s) IN
    IF l = S_closed THEN [ok |-> TRUE, v |-> "Closed"]
    ELSE IF l = S_open THEN [ok |-> TRUE, v |-> "Open"]
    ELSE [ok |-> FALSE, v |-> "Configuration"]

\* What Spi::get_one gives for SELECT current_setting(name, true): the value of
\* the setting, NULL when the setting is missing, or an SPI error.
SpiErr      == [spi |-> "Err", s |-> <<>>]
SpiNull     == [spi |-> "Null", s |-> <<>>]
SpiValue(s) == [spi |-> "Value", s |-> s]

\* get_config_value: Some(value) for a non-empty value that was read, else None
get_config_value(store, setting_name) ==
    LET r == store[setting_name] IN
    IF r.spi = "Value" /\ r.s # S_empty
    THEN [some |-> TRUE, s |-> r.s]
    ELSE [some |-> FALSE, s |-> <<>>]

get_fail_mode(store) ==
    LET v == get_config_value(store, "cedarling.fail_mode") IN
    IF v.some
    THEN (LET p == FailMode_from_str(v.s) IN IF p.ok THEN p.v ELSE "Closed")
    ELSE "Closed"

get_operation_mode(store) ==
    LET v == get_config_value(store, "cedarling.mode") IN
    IF v.some
    THEN (LET p == OperationMode_from_str(v.s) IN IF p.ok THEN p.v ELSE "Enforcement")
    ELSE "Enforcement"

\* the spellings of a word w that differ from it only in the case of letters
\* among the first CasePrefix, and the word in upper case
CaseVariants(w) ==
    LET n == IF Len(w) < CasePrefix THEN Len(w) ELSE CasePrefix IN
    { [i \in 1..Len(w) |-> IF i \in U THEN CharToUpper(w[i]) ELSE w[i]] : U \in SUBSET (1..n) }
    \cup {to_uppercase(w)}

(***************************************************************************)
(* JSON values of a claim map (serde_json::Value), as far as token.rs      *)
(* tells them apart: an integer (as_i64 is Some), a string (as_str is      *)
(* Some), any other value (array, object, bool, null, float), or no entry  *)
(* for the claim. Timestamps stay far from the limits of i64, so the       *)
(* additions and subtractions of validate_standard_claims are exact.       *)
(***************************************************************************)
Absent  == [t |-> "absent", n |-> 0, s |-> ""]
JInt(n) == [t |-> "int", n |-> n, s |-> ""]
JStr(s) == [t |-> "str", n |-> 0, s |-> s]
JOther  == [t |-> "other", n |-> 0, s |-> ""]

\* the clock at the start of a run
StartTime == 1000000
\* "5 minutes future"
FutureSkew == 300
\* max_age = 24 * 60 * 60
MaxAge == 86400

(***************************************************************************)
(* Results. kind is "Ok" or the CedarlingError variant; msg the message;   *)
(* warn the pgrx::warning! lines emitted on the way; step the position of  *)
(* the failing step in the function (0 when none failed).                  *)
(***************************************************************************)
Pass(w) == [fail |-> FALSE, kind |-> "Ok", msg |-> <<>>, warn |-> w]
Fail(k, m) == [fail |-> TRUE, kind |-> k, msg |-> m, warn |-> {}]

\* the `?` chain: the steps run in order up to and including the first that fails
FirstFail(steps) ==
    IF \E i \in 1..Len(steps) : steps[i].fail
    THEN CHOOSE i \in 1..Len(steps) : steps[i].fail /\ \A j \in 1..(i-1) : ~steps[j].fail
    ELSE 0

InOrder(steps) ==
    LET f == FirstFail(steps)
        ran == IF f = 0 THEN Len(steps) ELSE f
    IN  [kind |-> IF f = 0 THEN "Ok" ELSE steps[f].kind,
         msg  |-> IF f = 0 THEN <<>> ELSE steps[f].msg,
         warn |-> UNION {steps[i].warn : i \in 1..ran},
         step |-> f]

(***************************************************************************)
(* token.rs: validate_standard_claims                                      *)
(***************************************************************************)
\* a faulty variant of check_exp: a token is expired from the second of its exp on
check_exp_inclusive(claims, token_type, now) ==
    IF claims.exp.t # "absent" THEN
        IF claims.exp.t = "int" THEN
            IF claims.exp.n <= now
            THEN Fail("TokenValidation", <<token_type, "has expired">>)
            ELSE Pass({})
        ELSE Fail("TokenValidation", <<token_type, "has invalid exp claim format">>)
    ELSE Pass({<<token_type, "missing exp claim">>})

check_exp(claims, token_type, now) ==
    IF claims.exp.t # "absent" THEN
        IF claims.exp.t = "int" THEN
            IF claims.exp.n < now
            THEN Fail("TokenValidation", <<token_type, "has expired">>)
            ELSE Pass({})
        ELSE Fail("TokenValidation", <<token_type, "has invalid exp claim format">>)
    ELSE Pass({<<token_type, "missing exp claim">>})

\* a faulty variant of check_nbf: an nbf that is not an integer is refused
check_nbf_typed(claims, token_type, now) ==
    IF claims.nbf.t # "absent" THEN
        IF claims.nbf.t = "int" THEN
            IF claims.nbf.n > now
            THEN Fail("TokenValidation", <<token_type, "not yet valid (nbf)">>)
            ELSE Pass({})
        ELSE Fail("TokenValidation", <<token_type, "has invalid nbf claim format">>)
    ELSE Pass({})

check_nbf(claims, token_type, now) ==
    IF claims.nbf.t = "int" /\ claims.nbf.n > now
    THEN Fail("TokenValidation", <<token_type, "not yet valid (nbf)">>)
    ELSE Pass({})

\* a faulty variant of check_iat: no clock skew is allowed for
check_iat_no_skew(claims, token_type, now) ==
    IF claims.iat.t = "int" THEN
        LET w == IF now - claims.iat.n > MaxAge
                 THEN {<<token_type, "is older than 24 hours">>} ELSE {}
        IN  IF claims.iat.n >= now + FutureSkew
            THEN Fail("TokenValidation", <<token_type, "issued in the future (iat)">>)
            ELSE Pass(w)
    ELSE Pass({})

check_iat(claims, token_type, now) ==
    IF claims.iat.t = "int" THEN
        LET w == IF now - claims.iat.n > MaxAge
                 THEN {<<token_type, "is older than 24 hours">>} ELSE {}
        IN  IF claims.iat.n > now + FutureSkew
            THEN [Fail("TokenValidation", <<token_type, "issued in the future (iat)">>)
                    EXCEPT !.warn = w]
            ELSE Pass(w)
    ELSE Pass({})

\* a faulty variant of check_iss: iss is required of a userinfo token as well
check_iss_required_of_all(claims, token_type) ==
    IF claims.iss.t # "absent" THEN
        IF claims.iss.t = "str" /\ claims.iss.s = ""
        THEN Fail("TokenValidation", <<token_type, "has empty issuer">>)
        ELSE Pass({})
    ELSE Fail("TokenValidation", <<token_type, "missing required iss claim">>)

check_iss(claims, token_type) ==
    IF claims.iss.t # "absent" THEN
        IF claims.iss.t = "str" /\ claims.iss.s = ""
        THEN Fail("TokenValidation", <<token_type, "has empty issuer">>)
        ELSE Pass({})
    ELSE IF token_type # "userinfo_token"
    THEN Fail("TokenValidation", <<token_type, "missing required iss claim">>)
    ELSE Pass({})

check_sub(claims, token_type) ==
    IF claims.sub.t # "absent" THEN
        IF claims.sub.t = "str" /\ claims.sub.s = ""
        THEN Fail("TokenValidation", <<token_type, "has empty subject">>)
        ELSE Pass({})
    ELSE IF token_type # "access_token"
    THEN Pass({<<token_type, "missing sub claim">>})
    ELSE Pass({})

\* now is sampled by the function itself: chrono::Utc::now().timestamp()
validate_standard_claims(claims, token_type, now) ==
    InOrder(<< check_exp(claims, token_type, now),
               check_nbf(claims, token_type, now),
               check_iat(claims, token_type, now),
               check_iss(claims, token_type),
               check_sub(claims, token_type) >>)

(***************************************************************************)
(* token.rs: the decoders and TokenBundle::validate                        *)
(***************************************************************************)
None    == [some |-> FALSE]
Some(v) == [some |-> TRUE, v |-> v]

TokenTypes == <<"access_token", "id_token", "userinfo_token">>

\* jsonwebtoken::Algorithm
PreferredAlgs   == {"RS256", "RS384", "RS512", "ES256", "ES384"}
SymmetricAlgs   == {"HS256", "HS384", "HS512"}
UnsupportedAlgs == {"PS256", "PS384", "PS512", "EdDSA"}

\* validate_jwt_format: exactly three segments and a header that decodes
validate_jwt_format(tok, token_type) ==
    IF tok.segs # 3
    THEN Fail("TokenValidation", <<token_type, "does not have valid JWT format">>)
    ELSE IF tok.header # "ok"
    THEN Fail("TokenValidation", <<token_type, "Invalid header">>)
    ELSE Pass({})

\* the second decode_header of validate_jwt_with_signature
decode_header_step(tok, token_type) ==
    IF tok.header # "ok"
    THEN Fail("TokenValidation", <<token_type, "Invalid header">>)
    ELSE Pass({})

\* the match on header.alg
check_algorithm(tok, token_type) ==
    IF tok.alg \in PreferredAlgs THEN Pass({})
    ELSE IF tok.alg \in SymmetricAlgs
    THEN Pass({<<token_type, "Using symmetric algorithm">>})
    ELSE Fail("TokenValidation", <<token_type, "Unsupported algorithm">>)

\* extract_jwt_claims: the claim map of the payload, whether jsonwebtoken's decode
\* gives it or the manual base64 and JSON decoding of the second segment does
extract_jwt_claims(tok) ==
    IF tok.segs < 2
    THEN Fail("TokenValidation", <<"", "Failed to decode JWT">>)
    ELSE IF tok.payload = "badb64"
    THEN Fail("TokenValidation", <<"", "Failed to decode base64">>)
    ELSE IF tok.payload = "badjson"
    THEN Fail("JsonParsing", <<"", "Failed to parse JWT payload">>)
    ELSE Pass({})

\* the five steps of validate_jwt_with_signature of one token
TokenSteps(tok, token_type, now) ==
    LET std == validate_standard_claims(tok.claims, token_type, now) IN
    << validate_jwt_format(tok, token_type),
       decode_header_step(tok, token_type),
       check_algorithm(tok, token_type),
       extract_jwt_claims(tok),
       [fail |-> std.kind # "Ok", kind |-> std.kind, msg |-> std.msg, warn |-> std.warn] >>

validate_jwt_with_signature(tok, token_type, now) ==
    InOrder(TokenSteps(tok, token_type, now))

\* as_str of an entry of a claim map: Some for a JSON string only
as_str(v) == IF v.t = "str" THEN Some(v.s) ELSE None

\* a faulty variant of check_client_id_aud: a mismatch is logged, not refused
check_client_id_aud_warn_only(access, id) ==
    LET client_id == as_str(access.client_id)
        aud == as_str(id.aud)
    IN  IF client_id.some /\ aud.some /\ client_id.v # aud.v
        THEN Pass({<<"", "access_token client_id does not match id_token aud">>})
        ELSE Pass({})

\* access_token and id_token: client_id against aud
check_client_id_aud(access, id) ==
    LET client_id == as_str(access.client_id)
        aud == as_str(id.aud)
    IN  IF client_id.some /\ aud.some /\ client_id.v # aud.v
        THEN Fail("TokenValidation", <<"", "access_token client_id does not match id_token aud">>)
        ELSE Pass({})

\* access_token and id_token: the issuers
check_issuers(access, id) ==
    LET access_iss == as_str(access.iss)
        id_iss == as_str(id.iss)
    IN  IF access_iss.some /\ id_iss.some /\ access_iss.v # id_iss.v
        THEN Pass({<<"", "Issuer mismatch between access_token and id_token">>})
        ELSE Pass({})

\* a faulty variant of check_subjects: a mismatch is logged, not refused
check_subjects_warn_only(id, userinfo) ==
    LET id_sub == as_str(id.sub)
        userinfo_sub == as_str(userinfo.sub)
    IN  IF id_sub.some /\ userinfo_sub.some /\ id_sub.v # userinfo_sub.v
        THEN Pass({<<"", "id_token sub does not match userinfo_token sub">>})
        ELSE Pass({})

\* id_token and userinfo_token: the subjects
check_subjects(id, userinfo) ==
    LET id_sub == as_str(id.sub)
        userinfo_sub == as_str(userinfo.sub)
    IN  IF id_sub.some /\ userinfo_sub.some /\ id_sub.v # userinfo_sub.v
        THEN Fail("TokenValidation", <<"", "id_token sub does not match userinfo_token sub">>)
        ELSE Pass({})

\* id_token and userinfo_token: the audiences
check_audiences(id, userinfo) ==
    LET id_aud == as_str(id.aud)
        userinfo_aud == as_str(userinfo.aud)
    IN  IF id_aud.some /\ userinfo_aud.some /\ id_aud.v # userinfo_aud.v
        THEN Fail("TokenValidation", <<"", "id_token aud does not match userinfo_token aud">>)
        ELSE Pass({})

\* the extraction of one present token's claims in validate_token_consistency
ExtractIfPresent(opt) == IF opt.some THEN extract_jwt_claims(opt.v) ELSE Pass({})

validate_token_consistency(b) ==
    LET both_ai == b.access_token.some /\ b.id_token.some
        both_iu == b.id_token.some /\ b.userinfo_token.some
    IN  InOrder(<<
            ExtractIfPresent(b.access_token),
            ExtractIfPresent(b.id_token),
            ExtractIfPresent(b.userinfo_token),
            IF both_ai THEN check_client_id_aud(b.access_token.v.claims, b.id_token.v.claims)
                       ELSE Pass({}),
            IF both_ai THEN check_issuers(b.access_token.v.claims, b.id_token.v.claims)
                       ELSE Pass({}),
            IF both_iu THEN check_subjects(b.id_token.v.claims, b.userinfo_token.v.claims)
                       ELSE Pass({}),
            IF both_iu THEN check_audiences(b.id_token.v.claims, b.userinfo_token.v.claims)
                       ELSE Pass({}) >>)

AsStep(r) == [fail |-> r.kind # "Ok", kind |-> r.kind, msg |-> r.msg, warn |-> r.warn]

\* a faulty variant of check_presence: an empty bundle is let through
check_presence_skipped(b) == Pass({})

\* "Basic token presence validation"
check_presence(b) ==
    IF ~b.access_token.some /\ ~b.id_token.some /\ ~b.userinfo_token.some
    THEN Fail("TokenValidation", <<"", "At least one token must be provided">>)
    ELSE Pass({})

\* one present token's validate_jwt_with_signature, as a step of validate
ValidateIfPresent(opt, token_type, now) ==
    IF opt.some THEN AsStep(validate_jwt_with_signature(opt.v, token_type, now)) ELSE Pass({})

\* a faulty variant of TokenBundle_validate: the id token is validated first
TokenBundle_validate_id_first(b, nows) ==
    LET r == InOrder(<<
                check_presence(b),
                ValidateIfPresent(b.id_token, "id_token", nows[2]),
                ValidateIfPresent(b.access_token, "access_token", nows[1]),
                ValidateIfPresent(b.userinfo_token, "userinfo_token", nows[3]),
                AsStep(validate_token_consistency(b)) >>)
        opts == <<b.id_token, b.access_token, b.userinfo_token>>
        ran == IF r.step = 0 THEN 5 ELSE r.step
    IN  [kind |-> r.kind, msg |-> r.msg, warn |-> r.warn, step |-> r.step,
         decoded |-> Cardinality({i \in 1..3 : opts[i].some /\ ran >= i + 1})]

\* TokenBundle::validate. nows[i] is the clock that validate_standard_claims
\* samples for the i-th token kind, if that call is reached. decoded is the
\* number of tokens whose decoding was begun.
TokenBundle_validate(b, nows) ==
    LET r == InOrder(<<
                check_presence(b),
                ValidateIfPresent(b.access_token, "access_token", nows[1]),
                ValidateIfPresent(b.id_token, "id_token", nows[2]),
                ValidateIfPresent(b.userinfo_token, "userinfo_token", nows[3]),
                AsStep(validate_token_consistency(b)) >>)
        opts == <<b.access_token, b.id_token, b.userinfo_token>>
        ran == IF r.step = 0 THEN 5 ELSE r.step
    IN  [kind |-> r.kind, msg |-> r.msg, warn |-> r.warn, step |-> r.step,
         decoded |-> Cardinality({i \in 1..3 : opts[i].some /\ ran >= i + 1})]

(***************************************************************************)
(* authorization.rs and lib.rs                                             *)
(***************************************************************************)
Ok(v)  == [ok |-> TRUE, v |-> v]
Err(k) == [ok |-> FALSE, kind |-> k]

\* a faulty variant of OnceLockSet: the cell is overwritten
OnceLockSet_overwrite(cell, value) == [cell |-> value, ok |-> TRUE]

\* CEDARLING_INSTANCE.set(cedarling): stores into an empty cell only
OnceLockSet(cell, value) ==
    IF cell = 0 THEN [cell |-> value, ok |-> TRUE] ELSE [cell |-> cell, ok |-> FALSE]

\* get_cedarling_instance
get_cedarling_instance(cell) ==
    IF cell = 0 THEN Err("System") ELSE Ok(cell)

\* serde_json::from_str::<CedarResource>: a JSON object whose entity_type and id
\* are strings and whose attributes is an object
ParseResource(json) ==
    IF /\ json.wellformed
       /\ json.entity_type = "string"
       /\ json.id = "string"
       /\ json.attributes = "object"
    THEN Ok(json.name)
    ELSE Err("JsonParsing")

\* one Option<String> field of a TokenBundle: absent or null is None
ParseTokenField(f) == IF f.j = "string" THEN Some(f.v) ELSE None

\* serde_json::from_str::<TokenBundle>
ParseTokenBundle(json) ==
    IF /\ json.wellformed
       /\ json.access_token.j # "number"
       /\ json.id_token.j # "number"
       /\ json.userinfo_token.j # "number"
    THEN Ok([access_token   |-> ParseTokenField(json.access_token),
             id_token       |-> ParseTokenField(json.id_token),
             userinfo_token |-> ParseTokenField(json.userinfo_token)])
    ELSE Err("JsonParsing")

\* the tokens map of the Request: the tokens present in the bundle
RequestTokens(b) ==
    {t \in {"access_token", "id_token", "userinfo_token"} : b[t].some}

\* a faulty variant of DecisionFilter: instrumentation returns the raw decision
DecisionFilter_instrumentation_enforces(mode, decision) ==
    IF mode = "Shadow" THEN Ok(TRUE) ELSE Ok(decision)

\* a faulty variant of DecisionFilter: shadow mode returns the raw decision
DecisionFilter_shadow_enforces(mode, decision) ==
    IF mode = "Instrumentation" THEN Ok(TRUE) ELSE Ok(decision)

\* the match on get_operation_mode() of authorize_row
DecisionFilter(mode, decision) ==
    IF mode = "Enforcement" THEN Ok(decision)
    ELSE IF mode = "Instrumentation" THEN Ok(TRUE)
    ELSE Ok(TRUE)

\* a faulty variant of FailFilter: the engine's error is returned to the caller
FailFilter_propagates(fail_mode) ==
    IF fail_mode = "Closed" THEN Err("PolicyEvaluation") ELSE Ok(TRUE)

\* the match on get_fail_mode() of authorize_row
FailFilter(fail_mode) ==
    IF fail_mode = "Closed" THEN Ok(FALSE) ELSE Ok(TRUE)

\* authorize_row. outcome is what cedarling.authorize(request) gives: "allow",
\* "deny" (a decision) or "error". The result names the engine calls made, the
\* handle they were made on, the request's tokens, the message of a returned
\* error, and the audit entries created on the way: the function calls neither
\* to_audit_log nor log_with_audit, on any of its paths.
authorize_row(resource, b, action, cell, store, outcome) ==
    LET cedarling == get_cedarling_instance(cell) IN
    IF ~cedarling.ok
    THEN [result |-> cedarling, msg |-> "Cedarling instance not initialized",
          engineCalls |-> 0, engine |-> "none", handle |-> 0, tokens |-> {},
          audit |-> <<>>]
    ELSE [result |-> IF outcome = "error"
                     THEN FailFilter(get_fail_mode(store))
                     ELSE DecisionFilter(get_operation_mode(store), outcome = "allow"),
          msg |-> "",
          engineCalls |-> 1, engine |-> outcome, handle |-> cedarling.v,
          tokens |-> RequestTokens(b), audit |-> <<>>]

\* an error returned by authorize_manual before authorize_row is called
NoEngine(e, m) ==
    [result |-> e, msg |-> m, engineCalls |-> 0, engine |-> "none", handle |-> 0,
     tokens |-> {}, audit |-> <<>>]

\* a faulty variant of authorize_manual: the token JSON is parsed first
authorize_manual_tokens_first(resource_json, token_json, action, cell, store, outcome) ==
    LET token_bundle == ParseTokenBundle(token_json) IN
    IF ~token_bundle.ok THEN NoEngine(Err("JsonParsing"), "Invalid token JSON")
    ELSE LET resource == ParseResource(resource_json) IN
         IF ~resource.ok THEN NoEngine(Err("JsonParsing"), "Invalid resource JSON")
         ELSE authorize_row(resource.v, token_bundle.v, action, cell, store, outcome)

\* authorize_manual
authorize_manual(resource_json, token_json, action, cell, store, outcome) ==
    LET resource == ParseResource(resource_json) IN
    IF ~resource.ok THEN NoEngine(Err("JsonParsing"), "Invalid resource JSON")
    ELSE LET token_bundle == ParseTokenBundle(token_json) IN
         IF ~token_bundle.ok THEN NoEngine(Err("JsonParsing"), "Invalid token JSON")
         ELSE authorize_row(resource.v, token_bundle.v, action, cell, store, outcome)

\* a faulty variant of cedarling_authorized: an error is answered by the fail mode
cedarling_authorized_by_fail_mode(resource_data, token_bundle, cell, store, outcome) ==
    LET r == authorize_manual(resource_data, token_bundle, "Read", cell, store, outcome) IN
    [sql |-> IF r.result.ok THEN Ok(r.result.v) ELSE FailFilter(get_fail_mode(store)),
     manual |-> r]

\* cedarling_authorized: the SQL function
cedarling_authorized(resource_data, token_bundle, cell, store, outcome) ==
    LET r == authorize_manual(resource_data, token_bundle, "Read", cell, store, outcome) IN
    [sql |-> IF r.result.ok THEN Ok(r.result.v) ELSE Ok(FALSE), manual |-> r]

(***************************************************************************)
(* token.rs: the bundle kept in the session's parameter cedarling.tokens.  *)
(* The parameter is unrecognized until something defines or sets it, has   *)
(* no value (a null pointer) after a reset, or holds a byte string: the    *)
(* empty one, or [json, tail], a JSON text and the bytes that follow it.   *)
(***************************************************************************)
GucUnrecognized == [st |-> "unrecognized"]
GucNull == [st |-> "null"]
GucEmpty == [st |-> "empty"]
GucValue(json, tail) == [st |-> "value", json |-> json, tail |-> tail]

NoMutation == [op |-> "none"]

\* serde_json::to_string of one Option<String> field: null or a JSON string
SerializeTokenField(opt) ==
    IF opt.some THEN [j |-> "string", v |-> opt.v] ELSE [j |-> "null"]

\* serde_json::to_string(&TokenBundle): an object with the three fields
to_string(b) ==
    [wellformed |-> TRUE,
     access_token   |-> SerializeTokenField(b.access_token),
     id_token       |-> SerializeTokenField(b.id_token),
     userinfo_token |-> SerializeTokenField(b.userinfo_token)]

\* The bytes set_config_option reads as its value: json_str.as_ptr() points at
\* the bytes of a String, which no NUL byte ends, so the C string runs on into
\* whatever follows the buffer, up to the first zero byte: nothing, more text,
\* or bytes that are not UTF-8.
Tails == {"", "text", "not utf-8"}

\* set_tokens, on the parameter and with the bytes found after the buffer
set_tokens(token_bundle, tail) ==
    [result |-> Ok(TRUE), guc |-> GucValue(to_string(token_bundle), tail)]

\* clear_tokens: a null value resets the parameter, which has no reset value
clear_tokens ==
    [result |-> Ok(TRUE), guc |-> GucNull]

\* TokenBundle::from_json on the text the parameter holds
TokenBundle_from_json(json, tail) ==
    IF tail # "" THEN Err("JsonParsing") ELSE ParseTokenBundle(json)

\* get_current_token_bundle. GetConfigOption(name, missing_ok = false, ..) raises
\* a PostgreSQL ERROR for a parameter it does not recognize.
get_current_token_bundle(g) ==
    IF g.st = "unrecognized" THEN Err("PostgresError")
    ELSE IF g.st = "null" THEN Ok(None)
    ELSE IF g.st = "empty" THEN Ok(None)
    ELSE IF g.tail = "not utf-8" THEN Err("System")
    ELSE LET bundle_r == TokenBundle_from_json(g.json, g.tail) IN
         IF bundle_r.ok THEN Ok(Some(bundle_r.v)) ELSE bundle_r

(***************************************************************************)
(* error.rs: a CedarlingError is [kind, msg], the variant and its String.  *)
(***************************************************************************)
ErrorKinds ==
    {"TokenValidation", "ResourceConstruction", "PolicyEvaluation", "Configuration",
     "System", "Cache", "JsonParsing", "Database", "AuthorizationDenied",
     "PolicyLoading", "SchemaValidation", "Network", "Timeout"}

\* a faulty variant of should_deny: every kind denies
should_deny_always(e) == TRUE

should_deny(e) ==
    CASE e.kind = "TokenValidation"      -> TRUE
      [] e.kind = "AuthorizationDenied"  -> TRUE
      [] e.kind = "PolicyEvaluation"     -> TRUE
      [] e.kind = "System"               -> TRUE
      [] e.kind = "Database"             -> TRUE
      [] e.kind = "Network"              -> TRUE
      [] e.kind = "Timeout"              -> TRUE
      [] e.kind = "PolicyLoading"        -> TRUE
      [] e.kind = "Configuration"        -> TRUE
      [] e.kind = "SchemaValidation"     -> TRUE
      [] e.kind = "ResourceConstruction" -> FALSE
      [] e.kind = "JsonParsing"          -> FALSE
      [] e.kind = "Cache"                -> FALSE

log_level(e) ==
    CASE e.kind = "TokenValidation"      -> "LogLevel::Error"
      [] e.kind = "AuthorizationDenied"  -> "LogLevel::Info"
      [] e.kind = "PolicyEvaluation"     -> "LogLevel::Error"
      [] e.kind = "PolicyLoading"        -> "LogLevel::Error"
      [] e.kind = "SchemaValidation"     -> "LogLevel::Error"
      [] e.kind = "System"               -> "LogLevel::Warning"
      [] e.kind = "Database"             -> "LogLevel::Error"
      [] e.kind = "Network"              -> "LogLevel::Warning"
      [] e.kind = "Timeout"              -> "LogLevel::Warning"
      [] e.kind = "Configuration"        -> "LogLevel::Error"
      [] e.kind = "ResourceConstruction" -> "LogLevel::Warning"
      [] e.kind = "JsonParsing"          -> "LogLevel::Warning"
      [] e.kind = "Cache"                -> "LogLevel::Debug"

category(e) ==
    CASE e.kind = "TokenValidation"      -> "token_validation"
      [] e.kind = "ResourceConstruction" -> "resource_construction"
      [] e.kind = "PolicyEvaluation"     -> "policy_evaluation"
      [] e.kind = "Configuration"        -> "configuration"
      [] e.kind = "System"               -> "system"
      [] e.kind = "Cache"                -> "cache"
      [] e.kind = "JsonParsing"          -> "json_parsing"
      [] e.kind = "Database"             -> "database"
      [] e.kind = "AuthorizationDenied"  -> "authorization_denied"
      [] e.kind = "PolicyLoading"        -> "policy_loading"
      [] e.kind = "SchemaValidation"     -> "schema_validation"
      [] e.kind = "Network"              -> "network"
      [] e.kind = "Timeout"              -> "timeout"

\* the #[error("...: {0}")] text of each variant, followed by its String
Display(e) ==
    << CASE e.kind = "TokenValidation"      -> "Token validation failed: "
         [] e.kind = "ResourceConstruction" -> "Resource construction failed: "
         [] e.kind = "PolicyEvaluation"     -> "Policy evaluation failed: "
         [] e.kind = "Configuration"        -> "Configuration error: "
         [] e.kind = "System"               -> "System error: "
         [] e.kind = "Cache"                -> "Cache operation failed: "
         [] e.kind = "JsonParsing"          -> "JSON parsing failed: "
         [] e.kind = "Database"             -> "Database operation failed: "
         [] e.kind = "AuthorizationDenied"  -> "Authorization denied: "
         [] e.kind = "PolicyLoading"        -> "Policy loading failed: "
         [] e.kind = "SchemaValidation"     -> "Schema validation failed: "
         [] e.kind = "Network"              -> "Network operation failed: "
         [] e.kind = "Timeout"              -> "Timeout occurred: ",
       e.msg >>

\* format!("{:?}", level) of the derived Debug of LogLevel: the variant's name
LogLevelDebug(level) ==
    CASE level = "LogLevel::Debug"   -> "Debug"
      [] level = "LogLevel::Info"    -> "Info"
      [] level = "LogLevel::Warning" -> "Warning"
      [] level = "LogLevel::Error"   -> "Error"

\* to_audit_log. now is Utc::now(), uuid the identifier Uuid::new_v4() draws.
to_audit_log(e, context, now, uuid) ==
    [timestamp   |-> now,
     error_id    |-> uuid,
     category    |-> category(e),
     message     |-> Display(e),
     context     |-> context,
     should_deny |-> should_deny(e),
     log_level   |-> LogLevelDebug(log_level(e))]

(***************************************************************************)
(* resource.rs: table names and entity types, as character sequences.      *)
(***************************************************************************)
\* str::split('_'): the pieces between the underscores, empty ones included
RECURSIVE split(_)
split(s) ==
    IF \E i \in 1..Len(s) : s[i] = "_"
    THEN LET i == CHOOSE j \in 1..Len(s) : s[j] = "_" /\ \A k \in 1..(j - 1) : s[k] # "_"
         IN  <<SubSeq(s, 1, i - 1)>> \o split(SubSeq(s, i + 1, Len(s)))
    ELSE <<s>>

\* char::to_uppercase: the characters the upper-case form is written with
char_to_uppercase(c) == <<CharToUpper(c)>>

\* the closure mapped over the words
CapitalizeWord(word) ==
    IF word = <<>> THEN <<>>
    ELSE char_to_uppercase(Head(word)) \o Tail(word)

\* collect::<String>() of an iterator of Strings
RECURSIVE collect(_)
collect(words) ==
    IF words = <<>> THEN <<>> ELSE Head(words) \o collect(Tail(words))

\* a faulty variant of table_name_to_entity_type: only the first word is capitalized
table_name_to_entity_type_first_only(table_name) ==
    LET words == split(table_name)
    IN  collect([i \in 1..Len(words) |->
                    IF i = 1 THEN CapitalizeWord(words[i]) ELSE words[i]])

table_name_to_entity_type(table_name) ==
    LET words == split(table_name)
    IN  collect([i \in 1..Len(words) |-> CapitalizeWord(words[i])])

(***************************************************************************)
(* The inputs the operations are called with.                              *)
(***************************************************************************)
SettingNames == {"cedarling.mode", "cedarling.fail_mode"}

Store(m, f) == [k \in SettingNames |-> IF k = "cedarling.mode" THEN m ELSE f]

\* every value the two settings take when the configuration reads are checked
ModeSettings ==
    {SpiErr, SpiNull}
    \cup {SpiValue(s) : s \in CaseVariants(S_enforcement) \cup CaseVariants(S_instrumentation)
                              \cup CaseVariants(S_shadow)
                              \cup {S_empty, S_bogus, S_shadow_sp, S_open}}

FailSettings ==
    {SpiErr, SpiNull}
    \cup {SpiValue(s) : s \in CaseVariants(S_closed) \cup CaseVariants(S_open)
                              \cup {S_empty, S_bogus, S_opened, S_on, S_shadow}}

\* the values the settings take while authorization calls are made
AuthModeSettings ==
    {SpiNull, SpiValue(S_enforcement),
     SpiValue(<<"I","n","s","t","r","u","m","e","n","t","a","t","i","o","n">>),
     SpiValue(<<"S","H","A","D","O","W">>)}

AuthFailSettings ==
    {SpiNull, SpiValue(S_closed), SpiValue(<<"O","p","e","n">>)}

NoClaims ==
    [exp |-> Absent, nbf |-> Absent, iat |-> Absent, iss |-> Absent, sub |-> Absent,
     aud |-> Absent, client_id |-> Absent]

\* a token whose three segments, header and payload decode
Jwt(alg, claims) ==
    [segs |-> 3, header |-> "ok", alg |-> alg, payload |-> "ok", claims |-> claims]

GoodClaims ==
    [NoClaims EXCEPT !.exp = JInt(StartTime + 3600), !.iat = JInt(StartTime - 10),
                     !.iss = JStr("https://idp"), !.sub = JStr("u1")]

GoodAccess   == Jwt("RS256", [GoodClaims EXCEPT !.client_id = JStr("abc")])
GoodId       == Jwt("RS256", [GoodClaims EXCEPT !.aud = JStr("abc")])
GoodUserinfo == Jwt("ES256", [GoodClaims EXCEPT !.aud = JStr("abc")])
\* expired one second before the start of the run
ExpiredAccess == Jwt("RS256", [GoodAccess.claims EXCEPT !.exp = JInt(StartTime - 1)])
\* "test_token": a string without a '.'
NotAJwt == [segs |-> 1, header |-> "bad", alg |-> "RS256", payload |-> "badb64",
            claims |-> NoClaims]

Missing   == [j |-> "missing"]
Null      == [j |-> "null"]
Number    == [j |-> "number"]
String(v) == [j |-> "string", v |-> v]

TokenJson(a, i, u) ==
    [wellformed |-> TRUE, access_token |-> a, id_token |-> i, userinfo_token |-> u]

AuthTokenJsons ==
    { [wellformed |-> FALSE, access_token |-> Missing, id_token |-> Missing,
       userinfo_token |-> Missing],
      TokenJson(Missing, Missing, Missing),
      TokenJson(Number, Missing, Missing),
      TokenJson(String(GoodAccess), Missing, Missing),
      TokenJson(String(ExpiredAccess), Missing, Null),
      TokenJson(String(GoodAccess), String(GoodId), String(GoodUserinfo)) }

AuthResourceJsons ==
    { [wellformed |-> TRUE, entity_type |-> "string", id |-> "string",
       attributes |-> "object", name |-> "Document"],
      [wellformed |-> FALSE, entity_type |-> "missing", id |-> "missing",
       attributes |-> "missing", name |-> ""],
      [wellformed |-> TRUE, entity_type |-> "missing", id |-> "string",
       attributes |-> "missing", name |-> "Student"] }

EngineOutcomes == {"allow", "deny", "error"}

\* the claim maps validate_standard_claims is checked on
ExpValues == {Absent, JOther, JStr("tomorrow"),
              JInt(StartTime - 1), JInt(StartTime), JInt(StartTime + 1)}
NbfValues == {Absent, JOther, JInt(StartTime), JInt(StartTime + MaxTick + 1)}
IatValues == {Absent, JOther, JInt(StartTime),
              JInt(StartTime + FutureSkew), JInt(StartTime + FutureSkew + 1),
              JInt(StartTime + FutureSkew + 2),
              JInt(StartTime - MaxAge), JInt(StartTime - MaxAge - 1)}
IssValues == {Absent, JOther, JStr(""), JStr("https://idp")}
SubValues == {Absent, JOther, JStr(""), JStr("u1")}

ClaimMaps ==
    { [NoClaims EXCEPT !.exp = e, !.nbf = n, !.iat = i, !.iss = s, !.sub = u] :
        e \in ExpValues, n \in NbfValues, i \in IatValues, s \in IssValues, u \in SubValues }

\* the bundles TokenBundle::validate is checked on
NameValues == {Absent, JOther, JStr("abc"), JStr("xyz")}

\* claims of which exp, nbf, iat, iss and sub, from the k-th of them on, each
\* fail the check made on it
FailingFrom(k) ==
    [GoodClaims EXCEPT
        !.exp = IF k <= 1 THEN JInt(StartTime - 1) ELSE @,
        !.nbf = IF k <= 2 THEN JInt(StartTime + 100) ELSE @,
        !.iat = IF k <= 3 THEN JInt(StartTime + 1000) ELSE @,
        !.iss = IF k <= 4 THEN JStr("") ELSE @,
        !.sub = JStr("")]

\* claims whose nbf and iat are not integers and whose iss, sub, client_id and
\* aud are not strings
WrongTypes(claims) ==
    [claims EXCEPT !.nbf = JStr("soon"), !.iat = JOther, !.iss = JInt(7),
                   !.sub = JOther, !.client_id = JOther, !.aud = JOther]

AccessTokens ==
    { Jwt("RS256", [GoodClaims EXCEPT !.client_id = c, !.iss = i]) :
        c \in NameValues, i \in {JStr("https://idp"), JStr("https://other")} }
    \cup { Jwt("HS256", [GoodAccess.claims EXCEPT !.exp = JInt(StartTime)]),
           Jwt("PS256", GoodAccess.claims),
           [GoodAccess EXCEPT !.payload = "badjson"],
           NotAJwt }
    \cup { Jwt("RS256", FailingFrom(k)) : k \in 1..5 }
    \cup { Jwt("RS256", WrongTypes(GoodClaims)),
           Jwt("RS256", [WrongTypes(GoodClaims) EXCEPT !.exp = JOther]) }

IdTokens ==
    { Jwt("RS256", [GoodClaims EXCEPT !.aud = a, !.iss = i, !.sub = u]) :
        a \in NameValues, i \in {JStr("https://idp"), JOther},
        u \in {Absent, JStr("u1"), JStr("u2")} }
    \cup { Jwt("RS256", [GoodId.claims EXCEPT !.exp = JInt(StartTime)]),
           [GoodId EXCEPT !.header = "bad"],
           Jwt("RS256", WrongTypes(GoodClaims)) }

UserinfoTokens ==
    { Jwt("ES256", [GoodClaims EXCEPT !.aud = a, !.sub = u, !.iss = Absent]) :
        a \in {Absent, JStr("abc"), JStr("xyz")}, u \in {JOther, JStr("u1"), JStr("u2")} }
    \cup { Jwt("ES256", [GoodUserinfo.claims EXCEPT !.exp = JInt(StartTime)]),
           [GoodUserinfo EXCEPT !.payload = "badb64"],
           Jwt("ES256", WrongTypes(GoodClaims)) }

\* errors, contexts and generated identifiers of the error.rs operations
ErrorMessages == {"", "exp in the past"}

Errors == [kind : ErrorKinds, msg : ErrorMessages]

Contexts == {None, Some("authorize_row")}

Uuids == {"uuid-1", "uuid-2"}

\* table names: every string of at most MaxNameLen characters over NameChars,
\* and the three names of test_table_name_to_entity_type
NameChars == {"a", "B", "1", "_"}

S_users == <<"u","s","e","r","s">>
S_user_profiles == <<"u","s","e","r","_","p","r","o","f","i","l","e","s">>
S_order_items == <<"o","r","d","e","r","_","i","t","e","m","s">>

TableNames ==
    UNION { [1..n -> NameChars] : n \in 0..MaxNameLen }
    \cup {S_users, S_user_profiles, S_order_items}

\* the bundles a session stores; set_tokens takes any strings as tokens
SessionBundles ==
    [access_token : {None, Some(GoodAccess), Some(NotAJwt)},
     id_token : {None, Some(GoodId), Some(NotAJwt)},
     userinfo_token : {None, Some(GoodUserinfo)}]

\* cedarling.tokens as a session starts: not defined by anything, or defined
\* with the empty string by the server's configuration
InitialGucs == {GucUnrecognized, GucEmpty}

Optional(S) == {None} \cup {Some(t) : t \in S}

Bundles ==
    [access_token : Optional(AccessTokens), id_token : Optional(IdTokens),
     userinfo_token : Optional(UserinfoTokens)]

EmptyBundle == [access_token |-> None, id_token |-> None, userinfo_token |-> None]

(***************************************************************************)
(* The state machine.                                                      *)
(***************************************************************************)
Idle == [op |-> "none"]

InitCommon ==
    /\ instance = 0
    /\ nextHandle = 0
    /\ initPc = [p \in Procs |-> [st |-> "idle", h |-> 0]]
    /\ clock = StartTime
    /\ guc = GucUnrecognized
    /\ lastMutation = NoMutation
    /\ call = Idle

\* the authorization path of one backend
Init ==
    /\ InitCommon
    /\ settings = Store(SpiNull, SpiNull)
    /\ token = [kind |-> "access_token", claims |-> NoClaims]
    /\ bundle = EmptyBundle

\* SET cedarling.mode / cedarling.fail_mode in the session
SetConfig ==
    /\ \E m \in AuthModeSettings, f \in AuthFailSettings : settings' = Store(m, f)
    /\ UNCHANGED <<instance, nextHandle, initPc, clock, token, bundle, guc, lastMutation, call>>

\* _PG_init: initialize_cedarling, run once as the library is loaded. Cedarling::new
\* fails or builds a handle, which is then set.
PG_init ==
    /\ instance = 0
    /\ nextHandle < MaxInits
    /\ \E built \in BOOLEAN :
         IF built
         THEN LET r == OnceLockSet(instance, nextHandle + 1) IN
              /\ instance' = r.cell
              /\ nextHandle' = nextHandle + 1
              /\ call' = [op |-> "initialize_cedarling", proc |-> 0, stage |-> "set",
                          result |-> IF r.ok THEN Ok(TRUE) ELSE Err("System")]
         ELSE /\ call' = [op |-> "initialize_cedarling", proc |-> 0, stage |-> "new",
                          result |-> Err("System")]
              /\ UNCHANGED <<instance, nextHandle>>
    /\ UNCHANGED <<initPc, settings, clock, token, bundle, guc, lastMutation>>

\* SELECT cedarling_authorized(resource_data, token_bundle)
CedarlingAuthorized ==
    /\ \E rj \in AuthResourceJsons, tj \in AuthTokenJsons, outcome \in EngineOutcomes :
         LET r == cedarling_authorized(rj, tj, instance, settings, outcome) IN
         call' = [op |-> "cedarling_authorized", resource_json |-> rj, token_json |-> tj,
                  settings |-> settings, now |-> clock,
                  sql |-> r.sql, result |-> r.manual.result,
                  engineCalls |-> r.manual.engineCalls, engine |-> r.manual.engine,
                  handle |-> r.manual.handle, tokens |-> r.manual.tokens,
                  msg |-> r.manual.msg, audit |-> r.manual.audit]
    /\ UNCHANGED <<instance, nextHandle, initPc, settings, clock, token, bundle,
                   guc, lastMutation>>

Next == SetConfig \/ PG_init \/ CedarlingAuthorized

Spec == Init /\ [][Next]_vars

(***************************************************************************)
(* initialize_cedarling called by several threads of one process           *)
(***************************************************************************)
\* Cedarling::new(&bootstrap_config) of caller p: fails, or builds a handle
InitNew(p) ==
    /\ initPc[p].st = "idle"
    /\ nextHandle < MaxInits
    /\ \E built \in BOOLEAN :
         IF built
         THEN /\ nextHandle' = nextHandle + 1
              /\ initPc' = [initPc EXCEPT ![p] = [st |-> "built", h |-> nextHandle + 1]]
              /\ UNCHANGED call
         ELSE /\ call' = [op |-> "initialize_cedarling", proc |-> p, stage |-> "new",
                          result |-> Err("System")]
              /\ UNCHANGED <<nextHandle, initPc>>
    /\ UNCHANGED <<instance, settings, clock, token, bundle, guc, lastMutation>>

\* CEDARLING_INSTANCE.set(cedarling) of caller p, and the return
InitSet(p) ==
    /\ initPc[p].st = "built"
    /\ LET r == OnceLockSet(instance, initPc[p].h) IN
         /\ instance' = r.cell
         /\ call' = [op |-> "initialize_cedarling", proc |-> p, stage |-> "set",
                     result |-> IF r.ok THEN Ok(TRUE) ELSE Err("System")]
    /\ initPc' = [initPc EXCEPT ![p] = [st |-> "idle", h |-> 0]]
    /\ UNCHANGED <<nextHandle, settings, clock, token, bundle, guc, lastMutation>>

\* get_cedarling_instance()
GetInstance ==
    /\ call' = [op |-> "get_cedarling_instance", result |-> get_cedarling_instance(instance)]
    /\ UNCHANGED <<instance, nextHandle, initPc, settings, clock, token, bundle,
                   guc, lastMutation>>

NextInit == (\E p \in Procs : InitNew(p)) \/ (\E p \in Procs : InitSet(p)) \/ GetInstance

SpecInit == Init /\ [][NextInit]_vars

(***************************************************************************)
(* The configuration reads, over every value of the settings               *)
(***************************************************************************)
InitConfig ==
    /\ InitCommon
    /\ \E m \in ModeSettings, f \in FailSettings : settings = Store(m, f)
    /\ token = [kind |-> "access_token", claims |-> NoClaims]
    /\ bundle = EmptyBundle

GetOperationMode ==
    /\ call' = [op |-> "get_operation_mode", settings |-> settings,
                result |-> get_operation_mode(settings)]
    /\ UNCHANGED <<instance, nextHandle, initPc, settings, clock, token, bundle,
                   guc, lastMutation>>

GetFailMode ==
    /\ call' = [op |-> "get_fail_mode", settings |-> settings,
                result |-> get_fail_mode(settings)]
    /\ UNCHANGED <<instance, nextHandle, initPc, settings, clock, token, bundle,
                   guc, lastMutation>>

NextConfig == GetOperationMode \/ GetFailMode

SpecConfig == InitConfig /\ [][NextConfig]_vars

(***************************************************************************)
(* validate_standard_claims on one claim map, and TokenBundle::validate    *)
(***************************************************************************)
\* a second passes
Tick ==
    /\ clock < StartTime + MaxTick
    /\ clock' = clock + 1
    /\ UNCHANGED <<instance, nextHandle, initPc, settings, token, bundle, guc, lastMutation, call>>

InitClaims ==
    /\ InitCommon
    /\ settings = Store(SpiNull, SpiNull)
    /\ \E k \in {"access_token", "id_token", "userinfo_token"}, c \in ClaimMaps :
         token = [kind |-> k, claims |-> c]
    /\ bundle = EmptyBundle

ValidateStandardClaims ==
    /\ call' = [op |-> "validate_standard_claims", claims |-> token.claims,
                token_type |-> token.kind, now |-> clock,
                result |-> validate_standard_claims(token.claims, token.kind, clock)]
    /\ UNCHANGED <<instance, nextHandle, initPc, settings, clock, token, bundle,
                   guc, lastMutation>>

NextClaims == Tick \/ ValidateStandardClaims

SpecClaims == InitClaims /\ [][NextClaims]_vars

InitBundle ==
    /\ InitCommon
    /\ settings = Store(SpiNull, SpiNull)
    /\ token = [kind |-> "access_token", claims |-> NoClaims]
    /\ bundle \in Bundles

\* bundle.validate(): each validate_standard_claims the call reaches samples the
\* clock, which may have advanced since the previous sample
Validate ==
    /\ \E d1, d2 \in 0..MaxTick :
         /\ clock + d1 + d2 <= StartTime + MaxTick
         /\ LET nows == <<clock, clock + d1, clock + d1 + d2>> IN
            call' = [op |-> "validate", bundle |-> bundle, nows |-> nows,
                     result |-> TokenBundle_validate(bundle, nows)]
         /\ clock' = clock + d1 + d2
    /\ UNCHANGED <<instance, nextHandle, initPc, settings, token, bundle, guc, lastMutation>>

\* validate_token_consistency(&bundle)
ValidateTokenConsistency ==
    /\ call' = [op |-> "validate_token_consistency", bundle |-> bundle,
                result |-> validate_token_consistency(bundle)]
    /\ UNCHANGED <<instance, nextHandle, initPc, settings, clock, token, bundle,
                   guc, lastMutation>>

NextBundle == Tick \/ Validate \/ ValidateTokenConsistency

SpecBundle == InitBundle /\ [][NextBundle]_vars

(***************************************************************************)
(* error.rs: the classification of an error and its audit entry.           *)
(***************************************************************************)
ShouldDeny ==
    /\ \E e \in Errors :
         call' = [op |-> "should_deny", error |-> e, result |-> should_deny(e)]
    /\ UNCHANGED <<instance, nextHandle, initPc, settings, clock, token, bundle,
                   guc, lastMutation>>

LogLevel ==
    /\ \E e \in Errors :
         call' = [op |-> "log_level", error |-> e, result |-> log_level(e)]
    /\ UNCHANGED <<instance, nextHandle, initPc, settings, clock, token, bundle,
                   guc, lastMutation>>

Category ==
    /\ \E e \in Errors :
         call' = [op |-> "category", error |-> e, result |-> category(e)]
    /\ UNCHANGED <<instance, nextHandle, initPc, settings, clock, token, bundle,
                   guc, lastMutation>>

ToAuditLog ==
    /\ \E e \in Errors, context \in Contexts, uuid \in Uuids :
         call' = [op |-> "to_audit_log", error |-> e, context |-> context,
                  result |-> to_audit_log(e, context, clock, uuid)]
    /\ UNCHANGED <<instance, nextHandle, initPc, settings, clock, token, bundle,
                   guc, lastMutation>>

NextError == Tick \/ ShouldDeny \/ LogLevel \/ Category \/ ToAuditLog

SpecError == Init /\ [][NextError]_vars

(***************************************************************************)
(* resource.rs: the entity type of a table.                                *)
(***************************************************************************)
TableNameToEntityType ==
    /\ \E table_name \in TableNames :
         call' = [op |-> "table_name_to_entity_type", table_name |-> table_name,
                  result |-> table_name_to_entity_type(table_name)]
    /\ UNCHANGED <<instance, nextHandle, initPc, settings, clock, token, bundle,
                   guc, lastMutation>>

NextTable == TableNameToEntityType

SpecTable == Init /\ [][NextTable]_vars

(***************************************************************************)
(* token.rs: the session's token bundle.                                   *)
(***************************************************************************)
InitSession ==
    /\ instance = 0
    /\ nextHandle = 0
    /\ initPc = [p \in Procs |-> [st |-> "idle", h |-> 0]]
    /\ clock = StartTime
    /\ settings = Store(SpiNull, SpiNull)
    /\ token = [kind |-> "access_token", claims |-> NoClaims]
    /\ bundle = EmptyBundle
    /\ guc \in InitialGucs
    /\ lastMutation = NoMutation
    /\ call = Idle

SetTokens ==
    /\ \E b \in SessionBundles, tail \in Tails :
         LET r == set_tokens(b, tail) IN
         /\ guc' = r.guc
         /\ lastMutation' = [op |-> "set_tokens", bundle |-> b]
         /\ call' = [op |-> "set_tokens", bundle |-> b, result |-> r.result]
    /\ UNCHANGED <<instance, nextHandle, initPc, settings, clock, token, bundle>>

ClearTokens ==
    /\ guc' = clear_tokens.guc
    /\ lastMutation' = [op |-> "clear_tokens"]
    /\ call' = [op |-> "clear_tokens", result |-> clear_tokens.result]
    /\ UNCHANGED <<instance, nextHandle, initPc, settings, clock, token, bundle>>

GetCurrentTokenBundle ==
    /\ call' = [op |-> "get_current_token_bundle",
                result |-> get_current_token_bundle(guc)]
    /\ UNCHANGED <<instance, nextHandle, initPc, settings, clock, token, bundle,
                   guc, lastMutation>>

NextSession == SetTokens \/ ClearTokens \/ GetCurrentTokenBundle

SpecSession == InitSession /\ [][NextSession]_vars

(***************************************************************************)
(* The claims.                                                             *)
(***************************************************************************)
IsAuthorize == call.op = "cedarling_authorized"

ModeAtCall == get_operation_mode(call.settings)
FailModeAtCall == get_fail_mode(call.settings)

\* the validation of the bundle an authorize call was made with, at the call's time
BundleValidAtCall ==
    LET b == ParseTokenBundle(call.token_json) IN
    b.ok /\ TokenBundle_validate(b.v, <<call.now, call.now, call.now>>).kind = "Ok"

\* C1: in every authorize call the policy engine is invoked only after the token
\* bundle passed TokenBundle::validate; a bundle that fails validation (one with
\* all three tokens absent included) makes the call return an explicit failure
\* and never reaches the engine.
C1_EngineOnlyAfterValidation ==
    IsAuthorize =>
        /\ call.engineCalls > 0 => BundleValidAtCall
        /\ (ParseResource(call.resource_json).ok /\ ParseTokenBundle(call.token_json).ok
              /\ ~BundleValidAtCall) => ~call.result.ok

\* C2: when the engine returns a decision d, authorize_row returns Ok(d) in
\* Enforcement mode and Ok(true) in Instrumentation and Shadow mode, for d true
\* and false alike and whatever the fail mode is.
C2_DecisionFilter ==
    (IsAuthorize /\ call.engine \in {"allow", "deny"}) =>
        /\ ModeAtCall = "Enforcement" => call.result = Ok(call.engine = "allow")
        /\ ModeAtCall \in {"Instrumentation", "Shadow"} => call.result = Ok(TRUE)
        /\ call.engineCalls = 1

C2_Witness ==
    /\ IsAuthorize
    /\ call.engine = "deny"
    /\ ModeAtCall = "Instrumentation"
    /\ FailModeAtCall = "Open"
    /\ call.result = Ok(TRUE)

\* C3: when the engine call returns an evaluation error, authorize_row returns
\* Ok(false) under fail mode Closed and Ok(true) under fail mode Open; it never
\* returns an error for an engine failure and calls the engine once only.
C3_FailMode ==
    (IsAuthorize /\ call.engine = "error") =>
        /\ call.result.ok
        /\ FailModeAtCall = "Closed" => call.result = Ok(FALSE)
        /\ FailModeAtCall = "Open" => call.result = Ok(TRUE)
        /\ call.engineCalls = 1

C3_Witness ==
    /\ IsAuthorize
    /\ call.engine = "error"
    /\ FailModeAtCall = "Open"
    /\ ModeAtCall = "Enforcement"
    /\ call.result = Ok(TRUE)

\* C4, as claimed: in Shadow or Instrumentation mode every authorize call that
\* reaches the engine returns true, whatever the engine outcome (decision true,
\* decision false, evaluation error) and whatever the fail mode.
C4_ShadowAlwaysAllows ==
    (IsAuthorize /\ ModeAtCall \in {"Instrumentation", "Shadow"} /\ call.engine # "none") =>
        /\ call.result = Ok(TRUE)
        /\ call.sql = Ok(TRUE)

\* C4, amended: in Shadow or Instrumentation mode every authorize call in which
\* the engine returns a decision returns true, whatever the decision and the fail
\* mode; when the engine call returns an evaluation error the fail mode decides:
\* true under Open, false under Closed.
C4_ShadowAllowsDecisions ==
    (IsAuthorize /\ ModeAtCall \in {"Instrumentation", "Shadow"} /\ call.engine # "none") =>
        /\ call.engine \in {"allow", "deny"} => (call.result = Ok(TRUE) /\ call.sql = Ok(TRUE))
        /\ call.engine = "error" =>
             /\ call.result = Ok(FailModeAtCall = "Open")
             /\ call.sql = call.result

C4_Witness ==
    /\ IsAuthorize
    /\ ModeAtCall = "Shadow"
    /\ call.engine = "error"
    /\ FailModeAtCall = "Closed"
    /\ call.sql = Ok(FALSE)

\* s spells the lower-case word w, in any mix of upper and lower case
SameIgnoringCase(s, w) ==
    /\ Len(s) = Len(w)
    /\ \A i \in 1..Len(w) : s[i] = w[i] \/ s[i] = CharToUpper(w[i])

Names(v, w) == v.spi = "Value" /\ SameIgnoringCase(v.s, w)

\* C5: get_operation_mode and get_fail_mode return a mode for every value of the
\* setting (missing, empty, unreadable, unrecognized, any spelling of a name);
\* the names are matched whatever their case, and every other value gives the
\* default, Enforcement and Closed.
C5_ConfigTotal ==
    /\ call.op = "get_operation_mode" =>
         LET v == call.settings["cedarling.mode"] IN
         call.result = IF Names(v, S_instrumentation) THEN "Instrumentation"
                       ELSE IF Names(v, S_shadow) THEN "Shadow"
                       ELSE "Enforcement"
    /\ call.op = "get_fail_mode" =>
         LET v == call.settings["cedarling.fail_mode"] IN
         call.result = IF Names(v, S_open) THEN "Open" ELSE "Closed"

C5_Witness ==
    /\ call.op = "get_fail_mode"
    /\ call.settings["cedarling.fail_mode"] = SpiValue(<<"O","P","e","n">>)
    /\ call.settings["cedarling.mode"] = SpiErr
    /\ call.result = "Open"

\* C6: the engine handle is set at most once: a set succeeds only on the empty
\* cell, every later attempt returns a System error and leaves the handle as it
\* is, and get_cedarling_instance returns a System error while the cell is empty
\* and the stored handle afterwards, which never changes.
C6_SetAtMostOnce ==
    [][ /\ instance # 0 => instance' = instance
        /\ \A p \in Procs : (initPc[p].st = "built" /\ initPc'[p].st = "idle") =>
             /\ call'.op = "initialize_cedarling" /\ call'.proc = p
             /\ IF instance = 0
                THEN call'.result.ok /\ instance' = initPc[p].h
                ELSE call'.result = Err("System") /\ instance' = instance
        /\ (call' # call /\ call'.op = "get_cedarling_instance") =>
             call'.result = IF instance = 0 THEN Err("System") ELSE Ok(instance)
      ]_vars

C6_Witness ==
    /\ instance = 1
    /\ call.op = "initialize_cedarling"
    /\ call.stage = "set"
    /\ call.result = Err("System")
    /\ \E p \in Procs : initPc[p].st = "built"

\* C7: TokenBundle::validate on a bundle whose three tokens are all absent fails
\* with TokenValidation at the presence check, before any token is decoded.
C7_EmptyBundleFails ==
    (call.op = "validate" /\ call.bundle = EmptyBundle) =>
        /\ call.result.kind = "TokenValidation"
        /\ call.result.msg = <<"", "At least one token must be provided">>
        /\ call.result.step = 1
        /\ call.result.decoded = 0

C7_Witness ==
    /\ call.op = "validate"
    /\ call.bundle = EmptyBundle
    /\ call.result.kind = "TokenValidation"

IsStd == call.op = "validate_standard_claims"

\* C8: for every token kind validate_standard_claims fails with TokenValidation
\* when exp is present and is not an integer or is an integer below the validation
\* time; an exp equal to the validation time or later, or an absent exp, is never
\* the reason of a failure (an absent exp is a warning).
C8_Expiry ==
    IsStd =>
        LET e == call.claims.exp
            r == call.result
        IN  /\ e.t \in {"str", "other"} =>
                 /\ r.kind = "TokenValidation" /\ r.step = 1
                 /\ r.msg = <<call.token_type, "has invalid exp claim format">>
            /\ (e.t = "int" /\ e.n < call.now) =>
                 /\ r.kind = "TokenValidation" /\ r.step = 1
                 /\ r.msg = <<call.token_type, "has expired">>
            /\ (e.t = "int" /\ e.n >= call.now) => r.step # 1
            /\ e.t = "absent" =>
                 /\ r.step # 1
                 /\ <<call.token_type, "missing exp claim">> \in r.warn

C8_Witness ==
    /\ IsStd
    /\ call.now = StartTime + 1
    /\ call.claims.exp = JInt(StartTime)
    /\ call.token_type = "userinfo_token"
    /\ call.result.kind = "TokenValidation"
    /\ call.result.step = 1

C10_AccessIdConsistency ==
    (/\ call.op = "validate_token_consistency"
     /\ call.bundle.access_token.some /\ call.bundle.id_token.some
     /\ call.result.step \notin 1..3) =>
        LET a == call.bundle.access_token.v.claims
            i == call.bundle.id_token.v.claims
            r == call.result
            mismatch == a.client_id.t = "str" /\ i.aud.t = "str" /\ a.client_id.s # i.aud.s
            drift == a.iss.t = "str" /\ i.iss.t = "str" /\ a.iss.s # i.iss.s
        IN  /\ mismatch =>
                 /\ r.kind = "TokenValidation" /\ r.step = 4
                 /\ r.msg = <<"", "access_token client_id does not match id_token aud">>
            /\ ~mismatch => r.step # 4
            /\ r.step # 5
            /\ (drift /\ ~mismatch) =>
                 <<"", "Issuer mismatch between access_token and id_token">> \in r.warn

C10_Witness ==
    /\ call.op = "validate_token_consistency"
    /\ call.bundle.access_token.some /\ call.bundle.id_token.some
    /\ call.bundle.access_token.v.claims.iss = JStr("https://other")
    /\ call.bundle.id_token.v.claims.iss = JStr("https://idp")
    /\ call.bundle.access_token.v.claims.client_id = JStr("abc")
    /\ call.bundle.id_token.v.claims.aud = JStr("abc")
    /\ call.result.kind = "Ok"

\* C11: in validate_token_consistency, with an id token and a userinfo token both
\* present: if both carry sub (as strings) and the values differ, or both carry
\* aud (as strings) and the values differ, validation fails with TokenValidation;
\* the subjects are compared before the audiences. A pair of tokens that is not
\* present in the bundle is never compared.
C11_IdUserinfoConsistency ==
    (/\ call.op = "validate_token_consistency"
     /\ call.result.step \notin 1..5) =>
        LET b == call.bundle
            r == call.result
            both_iu == b.id_token.some /\ b.userinfo_token.some
            i == b.id_token.v.claims
            u == b.userinfo_token.v.claims
            subs == both_iu /\ i.sub.t = "str" /\ u.sub.t = "str" /\ i.sub.s # u.sub.s
            auds == both_iu /\ i.aud.t = "str" /\ u.aud.t = "str" /\ i.aud.s # u.aud.s
        IN  /\ subs =>
                 /\ r.kind = "TokenValidation" /\ r.step = 6
                 /\ r.msg = <<"", "id_token sub does not match userinfo_token sub">>
            /\ (~subs /\ auds) =>
                 /\ r.kind = "TokenValidation" /\ r.step = 7
                 /\ r.msg = <<"", "id_token aud does not match userinfo_token aud">>
            /\ (~subs /\ ~auds) => r.kind = "Ok"
            /\ ~both_iu => r.kind = "Ok"

C11_Witness ==
    /\ call.op = "validate_token_consistency"
    /\ call.bundle.id_token.some /\ call.bundle.userinfo_token.some
    /\ ~call.bundle.access_token.some
    /\ call.bundle.id_token.v.claims.sub = JStr("u1")
    /\ call.bundle.userinfo_token.v.claims.sub = JStr("u1")
    /\ call.bundle.id_token.v.claims.aud = JStr("abc")
    /\ call.bundle.userinfo_token.v.claims.aud = JStr("xyz")
    /\ call.result.kind = "TokenValidation"
    /\ call.result.step = 7

C13_SharedNow ==
    call.op = "validate" =>
        \E i \in 1..3 :
            LET t == call.nows[i]
                shared == TokenBundle_validate(call.bundle, <<t, t, t>>)
            IN  /\ call.result.kind = shared.kind
                /\ call.result.msg = shared.msg
                /\ call.result.step = shared.step

\* C14: authorize_manual, given a resource JSON or a token JSON that does not
\* parse, returns a JsonParsing error (not a boolean) and makes no engine call;
\* the resource JSON is parsed first, so when neither parses the error is the
\* one about the resource.
C14_ParseFailure ==
    IsAuthorize =>
        LET resource_bad == ~ParseResource(call.resource_json).ok
            token_bad == ~ParseTokenBundle(call.token_json).ok
        IN  /\ resource_bad =>
                 /\ call.result = Err("JsonParsing")
                 /\ call.msg = "Invalid resource JSON"
                 /\ call.engineCalls = 0
            /\ (~resource_bad /\ token_bad) =>
                 /\ call.result = Err("JsonParsing")
                 /\ call.msg = "Invalid token JSON"
                 /\ call.engineCalls = 0
            /\ (~resource_bad /\ ~token_bad) => call.result # Err("JsonParsing")

C14_Witness ==
    /\ IsAuthorize
    /\ instance # 0
    /\ ~call.resource_json.wellformed
    /\ ~call.token_json.wellformed
    /\ call.result = Err("JsonParsing")
    /\ call.msg = "Invalid resource JSON"
    /\ call.engineCalls = 0

\* C15: every error that arises on the authorization path (a JSON parse failure,
\* an engine that is not initialized, an evaluation error of the engine)
\* produces exactly one audit entry during the call.
C15_ErrorsAudited ==
    (IsAuthorize /\ (~call.result.ok \/ call.engine = "error")) =>
        Len(call.audit) = 1

C18_SessionTokens ==
    call.op = "get_current_token_bundle" =>
        call.result = IF lastMutation.op = "set_tokens"
                      THEN Ok(Some(lastMutation.bundle))
                      ELSE Ok(None)

\* the checks validate_jwt_with_signature makes on one token, in the order of the
\* code: format, header, algorithm, payload, then exp, nbf, iat, iss, sub
ChecksOfToken(opt, token_type, now) ==
    IF opt.some
    THEN << validate_jwt_format(opt.v, token_type),
            decode_header_step(opt.v, token_type),
            check_algorithm(opt.v, token_type),
            extract_jwt_claims(opt.v),
            check_exp(opt.v.claims, token_type, now),
            check_nbf(opt.v.claims, token_type, now),
            check_iat(opt.v.claims, token_type, now),
            check_iss(opt.v.claims, token_type),
            check_sub(opt.v.claims, token_type) >>
    ELSE <<>>

\* C19: TokenBundle::validate returns the first hard failure met in the order
\* presence, access token, id token, userinfo token, cross-token consistency,
\* and within one token exp, nbf, iat, iss, sub; nothing after the failure is
\* run; it returns Ok exactly when no check of any present token and no
\* consistency check fails.
C19_FirstFailure ==
    call.op = "validate" =>
        LET b == call.bundle
            r == call.result
            access == ChecksOfToken(b.access_token, "access_token", call.nows[1])
            id == ChecksOfToken(b.id_token, "id_token", call.nows[2])
            userinfo == ChecksOfToken(b.userinfo_token, "userinfo_token", call.nows[3])
            consistency == AsStep(validate_token_consistency(b))
            all == <<check_presence(b)>> \o access \o id \o userinfo \o <<consistency>>
            f == FirstFail(all)
            present == Cardinality({k \in {"access_token", "id_token", "userinfo_token"} :
                                       b[k].some})
        IN  /\ r.kind = "Ok" <=> \A i \in 1..Len(all) : ~all[i].fail
            /\ r.kind # "Ok" =>
                 /\ r.kind = all[f].kind
                 /\ r.msg = all[f].msg
                 /\ r.step = IF f = 1 THEN 1
                             ELSE IF f <= 1 + Len(access) THEN 2
                             ELSE IF f <= 1 + Len(access) + Len(id) THEN 3
                             ELSE IF f <= 1 + Len(access) + Len(id) + Len(userinfo) THEN 4
                             ELSE 5
            /\ r.step = 2 => r.decoded = 1
            /\ r.step = 3 => r.decoded = (IF b.access_token.some THEN 2 ELSE 1)
            /\ r.step \in {0, 4, 5} => r.decoded = present

C19_Witness ==
    /\ call.op = "validate"
    /\ call.bundle.access_token = Some(Jwt("RS256", FailingFrom(2)))
    /\ call.bundle.id_token = Some([GoodId EXCEPT !.header = "bad"])
    /\ call.bundle.userinfo_token.some
    /\ call.result.kind = "TokenValidation"
    /\ call.result.msg = <<"access_token", "not yet valid (nbf)">>
    /\ call.result.step = 2
    /\ call.result.decoded = 1

\* C20: cedarling_authorized never returns an error: it returns Ok(true) only
\* when authorize_manual returned Ok(true), Ok(false) when authorize_manual
\* returned Ok(false), and Ok(false) for every error of authorize_manual,
\* whatever the fail mode.
C20_SqlFailSafe ==
    IsAuthorize =>
        /\ call.sql.ok
        /\ call.sql.v \in BOOLEAN
        /\ call.sql.v <=> call.result = Ok(TRUE)
        /\ ~call.result.ok => call.sql = Ok(FALSE)

C20_Witness ==
    /\ IsAuthorize
    /\ FailModeAtCall = "Open"
    /\ call.result = Err("System")
    /\ call.sql = Ok(FALSE)

\* a claim that is there with a JSON type other than the one its check reads
NotInteger(v) == v.t \notin {"absent", "int"}
NotString(v) == v.t \notin {"absent", "str"}

\* a check, or nothing in its place when skip holds
Unless(skip, check) == IF skip THEN Pass({}) ELSE check

\* the checks made on one token, those on a wrong-typed nbf, iat, iss or sub left out
ChecksOfTokenTyped(opt, token_type, now) ==
    IF opt.some
    THEN LET c == opt.v.claims IN
         << validate_jwt_format(opt.v, token_type),
            decode_header_step(opt.v, token_type),
            check_algorithm(opt.v, token_type),
            extract_jwt_claims(opt.v),
            check_exp(c, token_type, now),
            Unless(NotInteger(c.nbf), check_nbf(c, token_type, now)),
            Unless(NotInteger(c.iat), check_iat(c, token_type, now)),
            Unless(NotString(c.iss), check_iss(c, token_type)),
            Unless(NotString(c.sub), check_sub(c, token_type)) >>
    ELSE <<>>

\* the cross-token comparisons, those on a wrong-typed value left out
ComparisonsTyped(b) ==
    LET both_ai == b.access_token.some /\ b.id_token.some
        both_iu == b.id_token.some /\ b.userinfo_token.some
        a == b.access_token.v.claims
        i == b.id_token.v.claims
        u == b.userinfo_token.v.claims
    IN  << ExtractIfPresent(b.access_token),
           ExtractIfPresent(b.id_token),
           ExtractIfPresent(b.userinfo_token),
           Unless(~both_ai \/ NotString(a.client_id) \/ NotString(i.aud),
                  check_client_id_aud(a, i)),
           Unless(~both_ai \/ NotString(a.iss) \/ NotString(i.iss), check_issuers(a, i)),
           Unless(~both_iu \/ NotString(i.sub) \/ NotString(u.sub), check_subjects(i, u)),
           Unless(~both_iu \/ NotString(i.aud) \/ NotString(u.aud), check_audiences(i, u)) >>

\* C21: only exp is type-checked. An exp that is there and is not an integer
\* fails validation; an nbf or iat that is not an integer, an iss or sub that is
\* not a string, and a client_id, aud, iss or sub that is not a string in the
\* cross-token comparisons never fail by themselves: TokenBundle::validate gives
\* the result (outcome, message and warnings) it gives with the checks on those
\* values left out.
C21_OnlyExpTypeChecked ==
    call.op = "validate" =>
        LET b == call.bundle
            r == call.result
            all == <<check_presence(b)>>
                   \o ChecksOfTokenTyped(b.access_token, "access_token", call.nows[1])
                   \o ChecksOfTokenTyped(b.id_token, "id_token", call.nows[2])
                   \o ChecksOfTokenTyped(b.userinfo_token, "userinfo_token", call.nows[3])
                   \o ComparisonsTyped(b)
            expected == InOrder(all)
        IN  /\ r.kind = expected.kind
            /\ r.msg = expected.msg
            /\ r.warn = expected.warn
            /\ \A ty \in {"access_token", "id_token", "userinfo_token"} :
                  (b[ty].some /\ NotInteger(b[ty].v.claims.exp)) => r.kind # "Ok"

C21_Witness ==
    /\ call.op = "validate"
    /\ call.bundle.access_token = Some(Jwt("RS256", WrongTypes(GoodClaims)))
    /\ call.bundle.id_token = Some(Jwt("RS256", WrongTypes(GoodClaims)))
    /\ call.bundle.userinfo_token = Some(Jwt("ES256", WrongTypes(GoodClaims)))
    /\ call.result.kind = "Ok"
    /\ call.result.warn = {}

====
